---- MODULE Spec2Model ----
(***************************************************************************)
(* A model of mapproxy/core/seed_ng.py: the recursive seeding descent      *)
(* (Seeder), the worker pool that loads the tile batches (SeedPool,        *)
(* SeedWorker), the region task (SeedTask) and the per-cache orchestration *)
(* (CacheSeeder.seed_view).                                                *)
(*                                                                         *)
(* Coordinates are integers; the unit is the edge of a tile of the         *)
(* deepest level of the cache's grid.  Seeder.progress and the weights are *)
(* exact rationals <<numerator, denominator>> in lowest terms.             *)
(***************************************************************************)
EXTENDS Integers, Sequences, FiniteSets, TLC

VARIABLES
    view,         \* the arguments of seed_view: bbox, level, srs, cache_srs, geom
    cacheseeder,  \* the CacheSeeder: caches, remove_before, dry_run, concurrency
    main,         \* the main process: where it is in seed_view, and the cache index
    task,         \* the SeedTask of the current cache
    stack,        \* the activation records of Seeder._seed, innermost last
    progress,     \* Seeder.progress
    tiles_queue,  \* SeedPool.tiles_queue
    procs,        \* SeedPool.procs: the state of each SeedWorker
    calls,        \* log: the bboxes task.intersects was called with, and by which visit
    visits,       \* log: the calls of Seeder._seed
    batches,      \* log: the jobs handed to SeedPool.seed, in order
    printed,      \* log: the jobs a worker printed the progress line of
    loaded,       \* log: the jobs whose load_tile_coords returned
    failed,       \* log: the jobs whose load raised out of the worker
    installed,    \* the caches whose expire_timestamp was replaced
    store,        \* the files of the level directories of each cache
    listed,       \* log: the files cleanup named in a 'removing' line
    pools,        \* log: the caches a SeedPool was built for, in order
    gets,         \* log: how many jobs the workers of the pool took from the queue
    symbol        \* an application of status_symbol: i, total and the result

vars == <<view, cacheseeder, main, task, stack, progress, tiles_queue, procs,
          calls, visits, batches, printed, loaded, failed, installed,
          store, listed, pools, gets, symbol>>

-----------------------------------------------------------------------------
(* Values *)

\* Python's None; no list, tuple or tile of the model is empty.
None == <<>>

NONE == 0
CONTAINS == -1
INTERSECTS == 1

\* multiprocessing.Queue(32)
QueueSize == 32

\* the most transient errors one load meets before it succeeds or fails for good
MaxRetries == 2

-----------------------------------------------------------------------------
(* Rationals *)

RECURSIVE GCD(_, _)
GCD(a, b) == IF b = 0 THEN a ELSE GCD(b, a % b)

Rat(n, d) == LET g == GCD(n, d) IN <<n \div g, d \div g>>

Zero == <<0, 1>>
One == <<1, 1>>

\* self.progress = progress
RatAssign(r, s) == s

\* self.progress += progress
RatAdd(r, s) == Rat(r[1] * s[2] + s[1] * r[2], r[2] * s[2])

\* the weight handed on undivided
RatKeep(r, k) == r

\* progress / len(sub_seeds)
RatDiv(r, k) == Rat(r[1], r[2] * k)

RatLeq(r, s) == r[1] * s[2] <= s[1] * r[2]

-----------------------------------------------------------------------------
(* The grid: a pyramid of `levels` levels over the square [0, 2^(levels-1)]^2,
   level z having 2^z by 2^z tiles.  A tile is <<x, y, z>>. *)

TileSize(grid, z) == 2 ^ (grid.levels - 1 - z)

InGrid(grid, x, y, z) ==
    /\ 0 <= x /\ x < 2 ^ z
    /\ 0 <= y /\ y < 2 ^ z

\* MetaGrid.meta_bbox(tile)
meta_bbox(grid, tile) ==
    LET s == TileSize(grid, tile[3])
    IN <<tile[1] * s, tile[2] * s, (tile[1] + 1) * s, (tile[2] + 1) * s>>

\* MetaGrid.get_affected_level_tiles(bbox, level)[2] as a list: the tiles of
\* `level` that bbox overlaps (not just touches), row by row; None where the
\* place is outside the grid.
get_affected_level_tiles(grid, bbox, z) ==
    LET s == TileSize(grid, z)
        x0 == bbox[1] \div s
        y0 == bbox[2] \div s
        x1 == (bbox[3] - 1) \div s
        y1 == (bbox[4] - 1) \div s
        nx == x1 - x0 + 1
        ny == y1 - y0 + 1
    IN [k \in 1..(nx * ny) |->
            LET x == x0 + ((k - 1) % nx)
                y == y0 + ((k - 1) \div nx)
            IN IF InGrid(grid, x, y, z) THEN <<x, y, z>> ELSE None]

-----------------------------------------------------------------------------
(* Regions *)

\* mapproxy.core.grid.bbox_intersects
bbox_intersects(one, two) ==
    /\ one[1] < two[3] /\ one[3] > two[1]
    /\ one[2] < two[4] /\ one[4] > two[2]

\* mapproxy.core.grid.bbox_contains
bbox_contains(one, two) ==
    /\ one[1] <= two[1] /\ one[3] >= two[3]
    /\ one[2] <= two[2] /\ one[4] >= two[4]

\* A geometry is a non-empty set of unit cells <<x, y>>, the cell [x,x+1]x[y,y+1];
\* geom=None is the empty set.
NoGeom == {}

CellsOf(bbox) == (bbox[1]..(bbox[3] - 1)) \X (bbox[2]..(bbox[4] - 1))

Min(S) == CHOOSE m \in S : \A n \in S : m <= n
Max(S) == CHOOSE m \in S : \A n \in S : m >= n

\* geom.bounds
bounds(geom) ==
    LET xs == {c[1] : c \in geom}
        ys == {c[2] : c \in geom}
    IN <<Min(xs), Min(ys), Max(xs) + 1, Max(ys) + 1>>

\* The reprojection of mapproxy.core.srs between the two coordinate systems
\* of the model: a translation along x.
SRSOffset(srs) == IF srs = "EPSG:4326" THEN 0 ELSE 1

\* bbox_srs.transform_bbox_to(seed_srs, bbox)
transform_bbox_to(from_srs, to_srs, bbox) ==
    LET d == SRSOffset(to_srs) - SRSOffset(from_srs)
    IN <<bbox[1] + d, bbox[2], bbox[3] + d, bbox[4]>>

\* transform_geometry(from_srs, to_srs, geometry)
transform_geometry(from_srs, to_srs, geometry) ==
    LET d == SRSOffset(to_srs) - SRSOffset(from_srs)
    IN {<<c[1] + d, c[2]>> : c \in geometry}

\* SeedTask.__init__(bbox, level, bbox_srs, seed_srs, geom)
SeedTask(bbox, level, bbox_srs, seed_srs, geom) ==
    LET geom2 == IF bbox_srs # seed_srs /\ geom # NoGeom
                 THEN transform_geometry(bbox_srs, seed_srs, geom)
                 ELSE geom
        bbox2 == IF bbox_srs # seed_srs
                 THEN IF geom # NoGeom
                      THEN bounds(geom2)
                      ELSE transform_bbox_to(bbox_srs, seed_srs, bbox)
                 ELSE bbox
    IN [start_level |-> level[1],
        max_level   |-> level[2],
        bbox_srs    |-> bbox_srs,
        seed_srs    |-> seed_srs,
        bbox        |-> bbox2,
        geom        |-> geom2]

\* SeedTask._geom_intersects(bbox)
geom_intersects(t, bbox) ==
    IF CellsOf(bbox) \subseteq t.geom THEN CONTAINS
    ELSE IF CellsOf(bbox) \cap t.geom # {} THEN INTERSECTS
    ELSE NONE

\* SeedTask._bbox_intersects(bbox)
bbox_intersects_task(t, bbox) ==
    IF bbox_contains(t.bbox, bbox) THEN CONTAINS
    ELSE IF bbox_intersects(t.bbox, bbox) THEN INTERSECTS
    ELSE NONE

\* SeedTask.intersects, as __init__ binds it
intersects(t, bbox) ==
    IF t.geom # NoGeom THEN geom_intersects(t, bbox) ELSE bbox_intersects_task(t, bbox)

-----------------------------------------------------------------------------
(* The descent *)

Present(subtiles) == SelectSeq(subtiles, LAMBDA subtile : subtile # None)

\* the classification Seeder._sub_seeds gives a present subtile
Intersection(t, grid, subtile, all_subtiles) ==
    IF all_subtiles THEN CONTAINS ELSE intersects(t, meta_bbox(grid, subtile))

\* _sub_seeds without `if intersection:`
sub_seeds_keep_none(t, grid, subtiles, all_subtiles) ==
    LET kept == Present(subtiles)
    IN [k \in 1..Len(kept) |->
            <<meta_bbox(grid, kept[k]), Intersection(t, grid, kept[k], all_subtiles)>>]

\* Seeder._sub_seeds(subtiles, all_subtiles): the list of (sub_bbox, intersection)
sub_seeds_of(t, grid, subtiles, all_subtiles) ==
    LET kept == SelectSeq(Present(subtiles),
                    LAMBDA subtile : Intersection(t, grid, subtile, all_subtiles) # NONE)
    IN [k \in 1..Len(kept) |->
            <<meta_bbox(grid, kept[k]), Intersection(t, grid, kept[k], all_subtiles)>>]

\* _sub_seeds calling task.intersects whatever all_subtiles is
intersects_calls_always(grid, subtiles, all_subtiles) ==
    LET p == Present(subtiles) IN [k \in 1..Len(p) |-> meta_bbox(grid, p[k])]

\* the bboxes Seeder._sub_seeds hands to task.intersects, in order
intersects_calls(grid, subtiles, all_subtiles) ==
    IF all_subtiles THEN <<>>
    ELSE LET p == Present(subtiles) IN [k \in 1..Len(p) |-> meta_bbox(grid, p[k])]

Symbols == <<" ", ".", "o", "O", "0">>

\* int(i/(total/4)), without math.ceil
status_symbol_floor(i, total) ==
    LET i1 == i + 1
    IN IF 0 < i1 /\ i1 > total THEN "X"
       ELSE Symbols[((4 * i1) \div total) + 1]

\* status_symbol(i, total): ceil(i / (total / 4)) is ceil(4 * i / total);
\* total / 4 is exact in floating point and the quotient is rounded
\* correctly, so it is an integer only where 4 * i / total is
status_symbol(i, total) ==
    LET i1 == i + 1
    IN IF 0 < i1 /\ i1 > total THEN "X"
       ELSE Symbols[((4 * i1 + total - 1) \div total) + 1]

\* the activation record of a call of Seeder._seed that has not run yet
Frame(cur_bbox, level, progess_str, weight, all_subtiles, id) ==
    [cur_bbox |-> cur_bbox, level |-> level, progess_str |-> progess_str,
     progress |-> weight, all_subtiles |-> all_subtiles,
     subtiles |-> <<>>, sub_seeds |-> <<>>, i |-> 0, pc |-> "enter", id |-> id]

Visit(cur_bbox, level, weight, all_subtiles, parent) ==
    [cur_bbox |-> cur_bbox, level |-> level, progress |-> weight,
     all_subtiles |-> all_subtiles, parent |-> parent]

Top == stack[Len(stack)]
Pop(s) == SubSeq(s, 1, Len(s) - 1)
SetTop(s, f) == [s EXCEPT ![Len(s)] = f]

cache == cacheseeder.caches[main.i]
grid == cache.grid

Descending == main.pc = "seed" /\ stack # <<>>

-----------------------------------------------------------------------------
(* The worker pool *)

\* a SeedWorker that was started and has taken nothing from the queue yet
\* (calls counts the calls of load_tiles for the job at hand, ex is the last
\* exception load_tiles raised, delays the sleeps of exp_backoff so far)
\* sentinels counts the (None, None) the worker took
Started == [pc |-> "get", tiles |-> None, progress |-> None,
            calls |-> 0, ex |-> "", delays |-> <<>>, sentinels |-> 0]

\* SeedPool.__init__: size workers, each started
SeedPool(size) == [w \in 1..size |-> Started]

\* (tiles, progress) as SeedPool.seed puts it
Job(tiles, prog) == [tiles |-> tiles, progress |-> prog]

\* (None, None)
Sentinel == Job(None, None)

\* exceptions=(TileSourceError,)
exceptions_without_IOError == {"TileSourceError"}

\* exceptions=(TileSourceError, IOError)
exceptions == {"TileSourceError", "IOError"}

\* what cache_mgr.load_tile_coords can raise; "Exception" is any other error
Raised == {"TileSourceError", "IOError", "Exception"}

\* seed.exp_backoff: the seconds slept after the n-th failure (n from 0)
wait_for(n) == 2 ^ (n + 1)

\* a queue without a size
put_never_blocks(queue) == FALSE

\* tiles_queue.put on a Queue(32) waits while this holds
put_blocks(queue) == Len(queue) >= QueueSize

\* a join that waits for no worker
Alive_never(w) == FALSE

\* proc.join() waits while the process of the worker runs
Alive(w) == procs[w].pc \in {"get", "load"}

\* a get that leaves the item at the head of the queue
get_leaves(queue) == queue

\* the queue after tiles_queue.get() returned its head
get(queue) == Tail(queue)

\* a worker that loads whatever dry_run says
loads_always(dry_run) == TRUE

\* if not self.dry_run: the worker loads the tiles of the job
loads(dry_run) == ~dry_run

-----------------------------------------------------------------------------
(* CacheSeeder.seed_view *)

\* not cache_srs or cache.grid.srs in cache_srs
Selected(c) == view.cache_srs = {} \/ c.grid.srs \in view.cache_srs

\* for cache in self.caches, a cache the filter passes: install the watermark
\* and build the pool
SeedView_Pool ==
    /\ main.pc = "seed_view"
    /\ main.i <= Len(cacheseeder.caches)
    /\ Selected(cache)
    /\ installed' = IF cacheseeder.remove_before THEN installed \cup {main.i}
                    ELSE installed
    /\ tiles_queue' = <<>>
    /\ procs' = SeedPool(cacheseeder.concurrency)
    /\ main' = [main EXCEPT !.pc = "task"]
    /\ calls' = <<>> /\ visits' = <<>> /\ batches' = <<>>
    /\ printed' = {} /\ loaded' = {} /\ failed' = {}
    /\ pools' = Append(pools, main.i)
    /\ gets' = 0
    /\ UNCHANGED <<view, cacheseeder, task, stack, progress, store, listed, symbol>>

\* a cache the filter rejects
SeedView_Skip ==
    /\ main.pc = "seed_view"
    /\ main.i <= Len(cacheseeder.caches)
    /\ ~Selected(cache)
    /\ main' = [main EXCEPT !.i = main.i + 1]
    /\ UNCHANGED <<view, cacheseeder, task, stack, progress, tiles_queue, procs,
                   calls, visits, batches, printed, loaded, failed, installed,
                   store, listed, pools, gets, symbol>>

\* SeedTask(...), Seeder(...) and the call seeder.seed()
SeedView_Task ==
    /\ main.pc = "task"
    /\ LET t == SeedTask(view.bbox, view.level, view.srs, grid.srs, view.geom)
       IN /\ task' = t
          /\ progress' = Zero
          /\ stack' = <<Frame(t.bbox, t.start_level, "", One, FALSE, 1)>>
          /\ visits' = <<Visit(t.bbox, t.start_level, One, FALSE, 0)>>
    /\ main' = [main EXCEPT !.pc = "seed"]
    /\ UNCHANGED <<view, cacheseeder, tiles_queue, procs, calls, batches,
                   printed, loaded, failed, installed,
                   store, listed, pools, gets, symbol>>

\* Seeder._seed from its first line to the loop over sub_seeds, or to the
\* addition to self.progress
Seed_Enter ==
    /\ Descending
    /\ Top.pc = "enter"
    /\ LET f == Top
           subtiles == get_affected_level_tiles(grid, f.cur_bbox, f.level)
           sub_seeds == sub_seeds_of(task, grid, subtiles, f.all_subtiles)
       IN IF f.level < task.max_level
          THEN /\ calls' = calls \o
                      [k \in 1..Len(intersects_calls(grid, subtiles, f.all_subtiles)) |->
                          [visit |-> f.id,
                           bbox |-> intersects_calls(grid, subtiles, f.all_subtiles)[k]]]
               /\ IF Len(sub_seeds) = 0
                  THEN \* progress / len(sub_seeds) raises ZeroDivisionError
                       /\ stack' = <<>>
                       /\ main' = [main EXCEPT !.pc = "raised"]
                  ELSE /\ stack' = SetTop(stack,
                              [f EXCEPT !.subtiles = subtiles,
                                        !.sub_seeds = sub_seeds,
                                        !.progress = RatDiv(f.progress, Len(sub_seeds)),
                                        !.pc = "loop"])
                       /\ main' = main
               /\ progress' = progress
          ELSE /\ progress' = RatAdd(progress, f.progress)
               /\ stack' = SetTop(stack, [f EXCEPT !.subtiles = subtiles, !.pc = "put"])
               /\ UNCHANGED <<main, calls>>
    /\ UNCHANGED <<view, cacheseeder, task, tiles_queue, procs, visits, batches,
                   printed, loaded, failed, installed,
                   store, listed, pools, gets, symbol>>

\* one round of the loop over sub_seeds: the recursive call
Seed_Recurse ==
    /\ Descending
    /\ Top.pc = "loop"
    /\ Top.i < Len(Top.sub_seeds)
    /\ LET f == Top
           sub == f.sub_seeds[f.i + 1]
           id == Len(visits) + 1
           all_subtiles == (sub[2] = CONTAINS)
           cur_progess_str == f.progess_str \o status_symbol(f.i, Len(f.sub_seeds))
       IN /\ stack' = Append(SetTop(stack, [f EXCEPT !.i = f.i + 1, !.all_subtiles = all_subtiles]),
                             Frame(sub[1], f.level + 1, cur_progess_str, f.progress,
                                   all_subtiles, id))
          /\ visits' = Append(visits,
                              Visit(sub[1], f.level + 1, f.progress, all_subtiles, f.id))
    /\ UNCHANGED <<view, cacheseeder, main, task, progress, tiles_queue, procs, calls,
                   batches, printed, loaded, failed, installed,
                   store, listed, pools, gets, symbol>>

\* a job that carries the local progress of the call, the weight
job_progress_local(self_progress, local_progress) == local_progress

\* the progress a job carries: self.progress as it is when the job is put
job_progress(self_progress, local_progress) == self_progress

\* self.seed_pool.seed(subtiles, (progess_str, self.progress)) and the return;
\* the put waits while the queue is full
Seed_Put ==
    /\ Descending
    /\ \/ Top.pc = "put"
       \/ Top.pc = "loop" /\ Top.i = Len(Top.sub_seeds)
    /\ ~put_blocks(tiles_queue)
    /\ LET f == Top
           job == Job(f.subtiles, <<f.progess_str, job_progress(progress, f.progress)>>)
       IN /\ tiles_queue' = Append(tiles_queue, job)
          /\ batches' = Append(batches, [visit |-> f.id, job |-> job])
    /\ stack' = Pop(stack)
    /\ main' = IF Len(stack) = 1 THEN [main EXCEPT !.pc = "stop", !.k = 0] ELSE main
    /\ UNCHANGED <<view, cacheseeder, task, progress, procs, calls, visits,
                   printed, loaded, failed, installed,
                   store, listed, pools, gets, symbol>>

\* SeedPool.stop, first loop: one (None, None) for each proc
Stop_Put ==
    /\ main.pc = "stop"
    /\ main.k < Len(procs)
    /\ ~put_blocks(tiles_queue)
    /\ tiles_queue' = Append(tiles_queue, Sentinel)
    /\ main' = [main EXCEPT !.k = main.k + 1]
    /\ UNCHANGED <<view, cacheseeder, task, stack, progress, procs, calls, visits,
                   batches, printed, loaded, failed, installed,
                   store, listed, pools, gets, symbol>>

\* SeedPool.stop, second loop: proc.join() for each proc, then the next cache
Stop_Join ==
    /\ main.pc = "stop"
    /\ main.k = Len(procs)
    /\ \A w \in DOMAIN procs : ~Alive(w)
    /\ main' = [main EXCEPT !.pc = "seed_view", !.i = main.i + 1]
    /\ UNCHANGED <<view, cacheseeder, task, stack, progress, tiles_queue, procs,
                   calls, visits, batches, printed, loaded, failed, installed,
                   store, listed, pools, gets, symbol>>

\* the loop over self.caches is over
SeedView_Return ==
    /\ main.pc = "seed_view"
    /\ main.i > Len(cacheseeder.caches)
    /\ main' = IF cacheseeder.remove_before
               THEN [main EXCEPT !.pc = "cleanup", !.c = 1, !.l = 0]
               ELSE [main EXCEPT !.pc = "done"]
    /\ UNCHANGED <<view, cacheseeder, task, stack, progress, tiles_queue, procs,
                   calls, visits, batches, printed, loaded, failed, installed,
                   store, listed, pools, gets, symbol>>

-----------------------------------------------------------------------------
(* CacheSeeder.cleanup *)

\* a file of a level directory; old: its mtime is before remove_before
File(level, old) == [level |-> level, old |-> old]

\* the level directories of a cache before the run: at each level a file
\* older than the watermark and a newer one
Stored(c) == {File(l, o) : l \in 0..(c.grid.levels - 1), o \in BOOLEAN}

\* the file_handler cleanup passes on: under dry_run the function that prints
\* 'removing ' + filename, else None, which cleanup_directory takes as os.remove
file_handler(dry_run) == IF dry_run THEN "print_msg" ELSE "os.remove"

\* the files cleanup_directory(level_dir, remove_before, file_handler) hands
\* to the handler: those of the directory that are older than remove_before
expired(files, level) == {f \in files : f.level = level /\ f.old}

\* the files left by cleanup_directory
cleanup_directory(files, level, handler) ==
    IF handler = "os.remove" THEN files \ expired(files, level) ELSE files

\* one round of the loops over self.caches and range(cache.grid.levels)
Cleanup_Level ==
    /\ main.pc = "cleanup"
    /\ main.c <= Len(cacheseeder.caches)
    /\ LET handler == file_handler(cacheseeder.dry_run)
           levels == cacheseeder.caches[main.c].grid.levels
       IN /\ store' = [store EXCEPT ![main.c] = cleanup_directory(@, main.l, handler)]
          /\ listed' = IF handler = "print_msg"
                        THEN listed \cup {<<main.c, f>> : f \in expired(store[main.c], main.l)}
                        ELSE listed
          /\ main' = IF main.l + 1 < levels
                      THEN [main EXCEPT !.l = main.l + 1]
                      ELSE [main EXCEPT !.c = main.c + 1, !.l = 0]
    /\ UNCHANGED <<view, cacheseeder, task, stack, progress, tiles_queue, procs,
                   calls, visits, batches, printed, loaded, failed, installed,
                   pools, gets, symbol>>

\* the loop over self.caches is over
Cleanup_Return ==
    /\ main.pc = "cleanup"
    /\ main.c > Len(cacheseeder.caches)
    /\ main' = [main EXCEPT !.pc = "done"]
    /\ UNCHANGED <<view, cacheseeder, task, stack, progress, tiles_queue, procs,
                   calls, visits, batches, printed, loaded, failed, installed,
                   store, listed, pools, gets, symbol>>

-----------------------------------------------------------------------------
(* SeedWorker.run *)

\* tiles_queue.get(), the test for the sentinel and the progress line
Worker_Get(w) ==
    /\ procs[w].pc = "get"
    /\ tiles_queue # <<>>
    /\ LET job == Head(tiles_queue)
       IN IF job.tiles = None
          THEN /\ procs' = [procs EXCEPT ![w] = [@ EXCEPT !.pc = "exited",
                                !.tiles = None, !.progress = None,
                                !.sentinels = @ + 1]]
               /\ printed' = printed
               /\ gets' = gets
          ELSE /\ procs' = [procs EXCEPT ![w] =
                                [pc |-> IF loads(cacheseeder.dry_run) THEN "load" ELSE "get",
                                 tiles |-> job.tiles, progress |-> job.progress,
                                 calls |-> 0, ex |-> "", delays |-> <<>>,
                                 sentinels |-> procs[w].sentinels]]
               /\ printed' = printed \cup {job}
               /\ gets' = gets + 1
    /\ tiles_queue' = get(tiles_queue)
    /\ UNCHANGED <<view, cacheseeder, main, task, stack, progress, calls, visits,
                   batches, loaded, failed, installed, store, listed, pools, symbol>>

\* one call of load_tiles inside exp_backoff that returns
Worker_Load(w) ==
    /\ procs[w].pc = "load"
    /\ loaded' = loaded \cup {Job(procs[w].tiles, procs[w].progress)}
    /\ procs' = [procs EXCEPT ![w] = [@ EXCEPT !.pc = "get", !.calls = @ + 1]]
    /\ UNCHANGED <<view, cacheseeder, main, task, stack, progress, tiles_queue,
                   calls, visits, batches, printed, failed, installed,
                   store, listed, pools, gets, symbol>>

\* one call of load_tiles inside exp_backoff that raises
Worker_Raise(w) ==
    /\ procs[w].pc = "load"
    /\ \E ex \in Raised :
        IF ex \in exceptions
        THEN /\ Len(procs[w].delays) < MaxRetries
             /\ procs' = [procs EXCEPT ![w] = [@ EXCEPT
                            !.calls = @ + 1, !.ex = ex,
                            !.delays = Append(@, wait_for(Len(@)))]]
             /\ failed' = failed
        ELSE /\ procs' = [procs EXCEPT ![w] = [@ EXCEPT
                            !.pc = "died", !.calls = @ + 1, !.ex = ex]]
             /\ failed' = failed \cup {Job(procs[w].tiles, procs[w].progress)}
    /\ UNCHANGED <<view, cacheseeder, main, task, stack, progress, tiles_queue,
                   calls, visits, batches, printed, loaded, installed,
                   store, listed, pools, gets, symbol>>

-----------------------------------------------------------------------------
(* The runs *)

\* the levels of the grid of the caches
GridLevels == 3

Grid(levels, srs) == [levels |-> levels, srs |-> srs]
Cache(levels, srs) == [grid |-> Grid(levels, srs)]

Coords == -1..4

BBoxes == {b \in Coords \X Coords \X Coords \X Coords : b[1] < b[3] /\ b[2] < b[4]}

\* (start, max); the last two are the wrong way round
Levels == {<<0, 0>>, <<0, 1>>, <<0, 2>>, <<1, 1>>, <<1, 2>>, <<2, 2>>, <<1, 0>>, <<2, 1>>}

\* polygons: two cells on a diagonal of one tile, the same across four tiles,
\* an L, a quarter of the grid with one more cell, and one cell off the grid
Geoms == {{<<0, 0>>, <<1, 1>>},
          {<<1, 1>>, <<2, 2>>},
          {<<0, 0>>, <<1, 0>>, <<0, 1>>},
          CellsOf(<<0, 0, 2, 2>>) \cup {<<2, 2>>},
          {<<-1, 0>>}}

View(bbox, level, srs, cache_srs, geom) ==
    [bbox |-> bbox, level |-> level, srs |-> srs, cache_srs |-> cache_srs, geom |-> geom]

BBoxViews(bboxes, levels) ==
    {View(b, l, "EPSG:4326", {}, NoGeom) : b \in bboxes, l \in levels}

\* load_polygons and load_datasource return (mp.bounds, mp)
GeomViews(geoms, levels) ==
    {View(bounds(g), l, "EPSG:4326", {}, g) : g \in geoms, l \in levels}

CacheSeeder(caches, remove_before, dry_run, concurrency) ==
    [caches |-> caches, remove_before |-> remove_before, dry_run |-> dry_run,
     concurrency |-> concurrency]

OneCache == <<Cache(GridLevels, "EPSG:4326")>>

InitState(views, seeders) ==
    /\ view \in views
    /\ cacheseeder \in seeders
    /\ main = [pc |-> "seed_view", i |-> 1, k |-> 0, c |-> 0, l |-> 0]
    /\ task = None
    /\ stack = <<>>
    /\ progress = Zero
    /\ tiles_queue = <<>>
    /\ procs = <<>>
    /\ calls = <<>> /\ visits = <<>> /\ batches = <<>>
    /\ printed = {} /\ loaded = {} /\ failed = {}
    /\ installed = {}
    /\ store = [c \in DOMAIN cacheseeder.caches |-> Stored(cacheseeder.caches[c])]
    /\ listed = {}
    /\ pools = <<>>
    /\ gets = 0

\* the largest total status_symbol is applied to
MaxTotal == 10

\* status_symbol(i, total) not called yet
Unapplied(i, total) == [i |-> i, total |-> total, out |-> ""]

InitWith(views, seeders) ==
    /\ symbol = Unapplied(0, 1)
    /\ InitState(views, seeders)

\* every bbox and polygon and every level range, one worker
InitRegions ==
    InitWith(BBoxViews(BBoxes, Levels) \cup GeomViews(Geoms, Levels),
             {CacheSeeder(OneCache, FALSE, FALSE, 1)})

\* some regions, two workers, with and without dry_run
InitWorkers ==
    InitWith(BBoxViews({<<0, 0, 4, 4>>, <<0, 0, 4, 2>>, <<1, 1, 3, 3>>, <<-1, 0, 1, 1>>},
                       {<<0, 2>>, <<1, 2>>, <<2, 1>>})
                \cup GeomViews({{<<1, 1>>, <<2, 2>>}}, {<<0, 2>>}),
             {CacheSeeder(OneCache, FALSE, d, 2) : d \in BOOLEAN})

\* two caches of different coordinate systems, all of them or one of them
\* asked for, with and without a watermark, with and without dry_run
InitCaches ==
    InitWith({View(<<0, 0, 2, 2>>, <<1, 2>>, s, c, NoGeom) :
                 s \in {"EPSG:4326", "EPSG:900913"},
                 c \in {{}, {"EPSG:4326"}, {"EPSG:900913"}}}
               \cup {View(bounds(g), <<1, 2>>, "EPSG:900913", {}, g) :
                        g \in {{<<1, 1>>, <<2, 2>>}}},
             {CacheSeeder(<<Cache(GridLevels, "EPSG:4326"), Cache(GridLevels, "EPSG:900913")>>,
                          r, d, 1) : r \in BOOLEAN, d \in BOOLEAN})

\* a pass of more jobs than the queue holds: 36 tiles of the level above the
\* deepest of a grid of GridLevels + 2 levels, in the second of two caches
InitLong ==
    InitWith({View(<<0, 0, 12, 12>>, <<GridLevels, GridLevels + 1>>, "EPSG:4326",
                   {"EPSG:4326"}, NoGeom)},
             {CacheSeeder(<<Cache(GridLevels + 2, "EPSG:900913"),
                            Cache(GridLevels + 2, "EPSG:4326")>>, TRUE, FALSE, 1)})

Init == InitRegions \/ InitWorkers \/ InitCaches

Next ==
    \/ SeedView_Pool
    \/ SeedView_Skip
    \/ SeedView_Task
    \/ Seed_Enter
    \/ Seed_Recurse
    \/ Seed_Put
    \/ Stop_Put
    \/ Stop_Join
    \/ SeedView_Return
    \/ Cleanup_Level
    \/ Cleanup_Return
    \/ \E w \in DOMAIN procs : Worker_Get(w)
    \/ \E w \in DOMAIN procs : Worker_Load(w)
    \/ \E w \in DOMAIN procs : Worker_Raise(w)

Spec == Init /\ [][Next]_vars

\* the call status_symbol(i, total)
StatusSymbol ==
    /\ symbol.out = ""
    /\ symbol' = [symbol EXCEPT !.out = status_symbol(symbol.i, symbol.total)]
    /\ UNCHANGED <<view, cacheseeder, main, task, stack, progress, tiles_queue, procs,
                   calls, visits, batches, printed, loaded, failed, installed,
                   store, listed, pools, gets>>

\* status_symbol on its own, for every i and total up to MaxTotal
InitSymbol ==
    /\ symbol \in {Unapplied(i, total) : i \in 0..MaxTotal, total \in 1..MaxTotal}
    /\ InitState(BBoxViews({<<0, 0, 4, 4>>}, {<<0, 2>>}),
                 {CacheSeeder(OneCache, FALSE, FALSE, 1)})

NextSymbol == StatusSymbol

SpecSymbol == InitSymbol /\ [][NextSymbol]_vars

SpecLong == InitLong /\ [][Next]_vars

-----------------------------------------------------------------------------
(* The claims *)

Range(seq) == {seq[k] : k \in DOMAIN seq}

\* a pass over a cache is under way: task, grid and the logs are those of this pass
InPass == main.pc \in {"seed", "stop", "raised"}

\* SeedPool.stop has returned
StopReturned == main.pc \in {"seed_view", "cleanup", "done"} /\ Len(procs) > 0

\* the call of seed_pool.seed of the innermost _seed is next
PutPending ==
    /\ Descending
    /\ \/ Top.pc = "put"
       \/ Top.pc = "loop" /\ Top.i = Len(Top.sub_seeds)

BatchVisit(k) == visits[batches[k].visit]

Children(id) == {c \in DOMAIN visits : visits[c].parent = id}

\* the tiles of a visit that are present and that the region touches, or all
\* the present ones under a bbox the region contains
Survivors(v) ==
    LET tiles == get_affected_level_tiles(grid, v.cur_bbox, v.level)
    IN {k \in DOMAIN tiles :
           /\ tiles[k] # None
           /\ v.all_subtiles \/ intersects(task, meta_bbox(grid, tiles[k])) # NONE}

\* C1: no tile whose bbox classifies NONE against the region is part of a
\* batch handed to the pool, at any level from start to max.
C1_NoTileOutsideRegion ==
    InPass =>
        \A k \in DOMAIN batches : \A j \in DOMAIN batches[k].job.tiles :
            LET tile == batches[k].job.tiles[j]
            IN tile # None => intersects(task, meta_bbox(grid, tile)) # NONE

\* C2: the bbox a batch is submitted for is the root bbox of the task or a
\* child bbox that classifies INTERSECTS or CONTAINS.
C2_BatchBBoxTouchesRegion ==
    InPass =>
        \A k \in DOMAIN batches :
            LET v == BatchVisit(k)
            IN \/ v.parent = 0 /\ v.cur_bbox = task.bbox
               \/ v.parent # 0 /\ intersects(task, v.cur_bbox) # NONE

\* a child bbox got its batch while a sibling that classified NONE was dropped
C2_Witness ==
    /\ InPass
    /\ \E k \in DOMAIN batches : BatchVisit(k).parent # 0
    /\ \E i \in DOMAIN calls : intersects(task, calls[i].bbox) = NONE

\* C3: task.intersects is never called for a bbox inside one that classified
\* CONTAINS; under such a bbox every present tile is recursed into as CONTAINS;
\* and when all the tiles of the root visit classify CONTAINS, the calls are
\* those of the root visit alone.
C3_HereditaryContains ==
    InPass =>
        /\ \A i, j \in DOMAIN calls :
              ~(/\ calls[i].bbox # calls[j].bbox
                /\ bbox_contains(calls[j].bbox, calls[i].bbox)
                /\ intersects(task, calls[j].bbox) = CONTAINS)
        /\ \A k \in DOMAIN batches :
              LET id == batches[k].visit
                  v == visits[id]
                  tiles == Present(get_affected_level_tiles(grid, v.cur_bbox, v.level))
              IN v.all_subtiles /\ v.level < task.max_level =>
                    /\ {visits[c].cur_bbox : c \in Children(id)}
                          = {meta_bbox(grid, tile) : tile \in Range(tiles)}
                    /\ \A c \in Children(id) : visits[c].all_subtiles
        /\ (/\ main.pc = "stop"
            /\ task.start_level < task.max_level
            /\ \A i \in DOMAIN calls :
                  calls[i].visit = 1 => intersects(task, calls[i].bbox) = CONTAINS)
              => Len(calls) = Len(Present(get_affected_level_tiles(
                                   grid, task.bbox, task.start_level)))

\* a descent is over in which a visit below max inherited CONTAINS
C3_Witness ==
    /\ main.pc = "stop"
    /\ calls # <<>>
    /\ \A i \in DOMAIN calls : intersects(task, calls[i].bbox) = CONTAINS
    /\ \E id \in DOMAIN visits :
          /\ visits[id].all_subtiles
          /\ visits[id].level < task.max_level
          /\ Cardinality(Children(id)) = 4

\* C4: SeedPool.stop returns only after each worker took one sentinel and
\* exited, and every job put before it was taken by a worker.
C4_StopAfterAllSentinels ==
    StopReturned =>
        /\ \A w \in DOMAIN procs : procs[w].pc = "exited"
        /\ \A k \in DOMAIN batches : batches[k].job \in printed

\* C5: every job put by the descent is loaded or ends in a reported failure,
\* and a worker's failure leaves the producer not waiting for good on a full
\* queue.
C5_NoJobDropped ==
    /\ (StopReturned /\ ~cacheseeder.dry_run) =>
          \A k \in DOMAIN batches : batches[k].job \in loaded \cup failed
    /\ ~(/\ PutPending
         /\ put_blocks(tiles_queue)
         /\ \A w \in DOMAIN procs : ~Alive(w))

\* C6: the queue never holds more than QueueSize entries, and the jobs put
\* and not yet taken are never more than QueueSize.
C6_BoundedQueue ==
    /\ Len(tiles_queue) <= QueueSize
    /\ Len(batches) - Cardinality(printed) <= QueueSize

\* the descent waits with a job at hand for a place in the full queue
C6_Witness ==
    /\ PutPending
    /\ Len(tiles_queue) = QueueSize
    /\ put_blocks(tiles_queue)

\* the errors the claim calls transient
Transient == {"TileSourceError", "IOError"}

StrictlyIncreasing(seq) == \A k \in 1..(Len(seq) - 1) : seq[k] < seq[k + 1]

\* C7: as long as the load of a job raised only transient errors the worker
\* lives, every failed call was followed by one sleep, longer than the one
\* before, and once the load returned the job is loaded after one call more
\* than there were failures.
C7_BackoffRetry ==
    \A w \in DOMAIN procs :
        LET p == procs[w]
        IN (/\ p.tiles # None
            /\ ~cacheseeder.dry_run
            /\ p.ex = "" \/ p.ex \in Transient) =>
              /\ p.pc \in {"load", "get"}
              /\ StrictlyIncreasing(p.delays)
              /\ p.pc = "load" => p.calls = Len(p.delays)
              /\ p.pc = "get" =>
                    /\ p.calls = Len(p.delays) + 1
                    /\ Job(p.tiles, p.progress) \in loaded
                    /\ Job(p.tiles, p.progress) \notin failed

\* a load returned at the third call, after a TileSourceError or IOError twice
C7_Witness ==
    \E w \in DOMAIN procs :
        /\ procs[w].pc = "get"
        /\ procs[w].ex = "IOError"
        /\ Len(procs[w].delays) = 2
        /\ procs[w].calls = 3
        /\ Job(procs[w].tiles, procs[w].progress) \in loaded

\* C8: after Seeder.seed returned, Seeder.progress is 1.
C8_ProgressSumsToOne ==
    main.pc = "stop" => progress = One

\* a descent of two levels below the root with four children each is over
C8_Witness ==
    /\ main.pc = "stop"
    /\ progress = One
    /\ \E id \in DOMAIN visits : visits[id].progress = <<1, 4>>
    /\ Len(visits) = 6

\* C9: a visit below max with k >= 1 surviving children makes k recursive
\* calls one level down, each with the k-th part of its weight; no visit
\* submits two batches and when the descent is over each submitted one.
C9_RecursiveCalls ==
    InPass =>
        /\ \A k \in DOMAIN batches :
              LET id == batches[k].visit
                  v == visits[id]
                  n == Cardinality(Survivors(v))
              IN v.level < task.max_level /\ n >= 1 =>
                    /\ Cardinality(Children(id)) = n
                    /\ \A c \in Children(id) :
                          /\ visits[c].level = v.level + 1
                          /\ visits[c].progress[1] * v.progress[2] * n
                                = v.progress[1] * visits[c].progress[2]
        /\ \A j, k \in DOMAIN batches : batches[j].visit = batches[k].visit => j = k
        /\ main.pc = "stop" => Len(batches) = Len(visits)

\* start = L, max = L + 1, four tiles under the root bbox, two of them touched:
\* two calls with weight 1/2 and three batches
C9_Witness ==
    /\ main.pc = "stop"
    /\ task.max_level = task.start_level + 1
    /\ Len(get_affected_level_tiles(grid, task.bbox, task.start_level)) = 4
    /\ Len(visits) = 3
    /\ visits[2].progress = <<1, 2>> /\ visits[3].progress = <<1, 2>>
    /\ Len(batches) = 3
    /\ BatchVisit(3).parent = 0

\* C10: with start level > max level nothing starts: no worker, no job, no load.
C10_FailFast ==
    view.level[1] > view.level[2] =>
        /\ Len(procs) = 0
        /\ batches = <<>>
        /\ loaded = {}

\* the files older than the watermark that the caches held before the run
OldFiles ==
    UNION {{<<c, f>> : f \in {g \in Stored(cacheseeder.caches[c]) : g.old}} :
              c \in DOMAIN cacheseeder.caches}

\* C11: under dry_run no worker calls the tile loading and cleanup removes no
\* file: the workers only take the jobs and print, and cleanup only names
\* the files it would remove.
C11_DryRunLoadsAndRemovesNothing ==
    cacheseeder.dry_run =>
        /\ loaded = {} /\ failed = {}
        /\ \A w \in DOMAIN procs : procs[w].pc # "load" /\ procs[w].calls = 0
        /\ \A c \in DOMAIN store : store[c] = Stored(cacheseeder.caches[c])
        /\ (main.pc = "done" /\ cacheseeder.remove_before) => listed = OldFiles

C11_Witness ==
    /\ cacheseeder.dry_run /\ cacheseeder.remove_before
    /\ main.pc = "done"
    /\ printed # {}
    /\ listed # {}

\* C12: status_symbol(i, n) is 'X' when i + 1 > n; for n >= 1 and 0 <= i < n it
\* is the symbol of ' .oO0' at index ceil((i + 1) / (n / 4)), which is one of
\* 1..4; for n = 4 and n = 10 the results are those of the two lists.
C12_GlyphMapping ==
    symbol.out # "" =>
        LET i == symbol.i
            n == symbol.total
        IN /\ i + 1 > n => symbol.out = "X"
           /\ i < n => \E k \in 1..4 : /\ (k - 1) * n < 4 * (i + 1)
                                      /\ 4 * (i + 1) <= k * n
                                      /\ symbol.out = Symbols[k + 1]
           /\ (n = 4 /\ i <= 4) => symbol.out = <<".", "o", "O", "0", "X">>[i + 1]
           /\ (n = 10 /\ i <= 10) =>
                  symbol.out = <<".", ".", "o", "o", "o", "O", "O", "0", "0", "0", "X">>[i + 1]

C12_Witness == symbol = [i |-> 4, total |-> 10, out |-> "o"]

\* C13: the progress line of a job is printed only after the load of the
\* tiles of that job has returned, never before the load starts.
C13_ProgressLineAfterLoad ==
    ~cacheseeder.dry_run => printed \subseteq loaded

\* a visit below the max level none of whose tiles is present and touched
\* by the region
Childless(id) ==
    visits[id].level < task.max_level /\ Survivors(visits[id]) = {}

\* C14: a visit below the max level with no surviving child does not fail the
\* descent: it calls _seed for no child, its own batch is still submitted,
\* self.progress stays as it is and the descent goes on.
C14_ChildlessVisitSubmits ==
    InPass =>
        /\ main.pc # "raised"
        /\ \A id \in DOMAIN visits : Childless(id) => Children(id) = {}
        /\ main.pc = "stop" =>
               \A id \in DOMAIN visits : \E k \in DOMAIN batches : batches[k].visit = id

\* the step is the entry of the innermost call of _seed
EnterStep == Descending /\ Top.pc = "enter" /\ stack' # stack

\* C15: during a pass self.progress starts at 0, never decreases and never
\* exceeds 1; it changes only in a visit at the max level, where it grows by
\* the weight of that visit; a visit below the max level leaves it unchanged.
C15_ProgressState ==
    [][/\ main.pc = "task" => progress' = Zero
       /\ main.pc = "seed" =>
              /\ RatLeq(progress, progress')
              /\ RatLeq(progress', One)
              /\ progress' # progress => EnterStep /\ Top.level = task.max_level
              /\ (EnterStep /\ Top.level = task.max_level) =>
                     progress' = RatAdd(progress, Top.progress)
              /\ (EnterStep /\ Top.level < task.max_level) => progress' = progress]_vars

\* the process of the worker has ended
Ended(w) == procs[w].pc \in {"exited", "died"}

\* C16: seed_view builds a fresh pool for each cache the SRS filter passes,
\* the descent runs to its end and the workers of the pool have all ended
\* before the pool of the next cache is built; no pool is used for two
\* caches, so at most one pool has live workers; a cache the filter rejects
\* gets no pool, no job and no watermark.
C16_PoolLifecycle ==
    /\ [](/\ \A k \in DOMAIN pools : Selected(cacheseeder.caches[pools[k]])
          /\ \A j, k \in DOMAIN pools : j < k => pools[j] < pools[k]
          /\ installed \subseteq Range(pools)
          /\ (InPass \/ main.pc = "task") => pools[Len(pools)] = main.i)
    /\ [][pools' # pools =>
              /\ \A w \in DOMAIN procs : Ended(w)
              /\ stack = <<>> /\ Len(batches) = Len(visits)
              /\ pools # <<>> => batches # <<>>
              /\ procs' = [w \in 1..cacheseeder.concurrency |-> Started]
              /\ tiles_queue' = <<>>]_vars

C16_Witness ==
    /\ Len(pools) = 2
    /\ main.pc = "stop"
    /\ \E w \in DOMAIN procs : procs[w].pc = "load"

\* C17: a pool whose workers were started is stopped even when SeedTask or
\* the descent raises: no state has the error out of seed_view (the main
\* process takes no further step) and a worker waiting on the empty queue.
C17_PoolStoppedOnError ==
    main.pc = "raised" =>
        \A w \in DOMAIN procs : ~(procs[w].pc = "get" /\ tiles_queue = <<>>)

\* the jobs put by the descent of this pass
Jobs == {batches[k].job : k \in DOMAIN batches}

\* the jobs waiting in the queue
Queued == {k \in DOMAIN tiles_queue : tiles_queue[k].tiles # None}

\* C18: every job put on the queue is taken by one worker, once: the jobs
\* taken and the jobs waiting add up to the jobs put, no job is taken twice
\* and no two workers hold the same job; a worker takes at most one
\* sentinel; when stop() has returned and no worker failed the queue is empty.
C18_ExactlyOnce ==
    /\ \A j, k \in DOMAIN batches : j # k => batches[j].job # batches[k].job
    /\ printed \subseteq Jobs
    /\ gets = Cardinality(printed)
    /\ gets + Cardinality(Queued) = Len(batches)
    /\ \A k \in Queued : tiles_queue[k] \notin printed
    /\ \A v, w \in DOMAIN procs :
          (v # w /\ procs[v].pc = "load" /\ procs[w].pc = "load") =>
              Job(procs[v].tiles, procs[v].progress) # Job(procs[w].tiles, procs[w].progress)
    /\ \A w \in DOMAIN procs :
          /\ procs[w].sentinels <= 1
          /\ procs[w].sentinels = 1 <=> procs[w].pc = "exited"
    /\ (StopReturned /\ \A w \in DOMAIN procs : procs[w].pc = "exited") =>
          tiles_queue = <<>> /\ printed = Jobs

C18_Witness ==
    /\ StopReturned
    /\ Len(procs) = 2
    /\ \A w \in DOMAIN procs : procs[w].pc = "exited"
    /\ Len(batches) >= 3
    /\ loaded = Jobs

\* C19: the jobs are put in post-order: the job of a visit is put after the
\* jobs of all the visits below it, the progress values the jobs carry never
\* decrease along the queue, and the last job of a pass is that of the root
\* visit, with the final value of self.progress.
C19_PostOrder ==
    InPass =>
        /\ \A k \in DOMAIN batches :
              LET id == batches[k].visit
              IN /\ \A c \in Children(id) : \E j \in 1..(k - 1) : batches[j].visit = c
                 /\ visits[id].level < task.max_level =>
                        Cardinality(Children(id)) = Cardinality(Survivors(visits[id]))
        /\ \A j, k \in DOMAIN batches :
              j < k => RatLeq(batches[j].job.progress[2], batches[k].job.progress[2])
        /\ main.pc = "stop" =>
              /\ Len(batches) = Len(visits)
              /\ batches[Len(batches)].visit = 1
              /\ batches[Len(batches)].job.progress[2] = progress

C19_Witness ==
    /\ main.pc = "stop"
    /\ Len(batches) >= 4
    /\ \E j, k \in DOMAIN batches :
          batches[j].job.progress[2] # batches[k].job.progress[2]
    /\ \E id \in DOMAIN visits : visits[id].parent # 0 /\ Children(id) # {}

\* the caches cleanup removed a file of, or named a file of
Cleaned == {c \in DOMAIN store :
               \/ store[c] # Stored(cacheseeder.caches[c])
               \/ \E f \in Stored(cacheseeder.caches[c]) : <<c, f>> \in listed}

\* C20: cleanup removes, or under dry_run names, files only of the caches
\* that passed the SRS filter of seed_view, which got the watermark and a
\* descent; it starts only after every pool was stopped.
C20_CleanupOnlySeededCaches ==
    /\ \A c \in Cleaned : c \in Range(pools) /\ c \in installed
    /\ main.pc = "cleanup" => \A w \in DOMAIN procs : Ended(w)


=============================================================================
